---- MODULE Spec2Model ----
(***************************************************************************)
(* A model of CalculatorImporter (src/calculator-import.js) and of the    *)
(* import-then-validate script (src/unnamed/part_000).                    *)
(*                                                                         *)
(* A JavaScript string is a sequence of one-character strings, so that    *)
(* every regular expression of the source is an operator over characters. *)
(* Three characters outside ASCII are written by their code point:        *)
(* "U+00E9" (e acute), "U+00C9" (E acute) and "U+0301" (combining acute). *)
(***************************************************************************)
EXTENDS Integers, Sequences, FiniteSets, TLC

----------------------------------------------------------------------------
(* Characters *)

UpperSeq ==
  << "A","B","C","D","E","F","G","H","I","J","K","L","M",
     "N","O","P","Q","R","S","T","U","V","W","X","Y","Z" >>

LowerSeq ==
  << "a","b","c","d","e","f","g","h","i","j","k","l","m",
     "n","o","p","q","r","s","t","u","v","w","x","y","z" >>

DigitSeq == << "0","1","2","3","4","5","6","7","8","9" >>

Range(s) == { s[i] : i \in DOMAIN s }

Upper == Range(UpperSeq)

Lower == Range(LowerSeq)

Digit == Range(DigitSeq)

(* \w of a JavaScript regular expression: [A-Za-z0-9_] *)
WordChar == Upper \cup Lower \cup Digit \cup {"_"}

(* the white space String.prototype.trim removes (those the model uses) *)
WhiteSpace == {" ", "\t", "\n", "\r"}

IndexIn(c, s) == CHOOSE i \in DOMAIN s : s[i] = c

(* String.prototype.toLowerCase, one character *)
LowerChar(c) ==
  IF c \in Upper THEN LowerSeq[IndexIn(c, UpperSeq)]
  ELSE IF c = "U+00C9" THEN "U+00E9"
  ELSE c

(* the case folding of a regular expression with the i flag *)
UpperChar(c) == IF c \in Lower THEN UpperSeq[IndexIn(c, LowerSeq)] ELSE c

toLowerCase(s) == [i \in DOMAIN s |-> LowerChar(s[i])]

FoldCase(s) == [i \in DOMAIN s |-> UpperChar(s[i])]

(* the value of a decimal digit *)
DigitVal(c) == IndexIn(c, DigitSeq) - 1

----------------------------------------------------------------------------
(* Strings *)

(* the characters of s from position i (1-based) to the end *)
From(s, i) == SubSeq(s, i, Len(s))

(* s has p at position i *)
HasAt(s, i, p) ==
  /\ i >= 1
  /\ i + Len(p) - 1 <= Len(s)
  /\ SubSeq(s, i, i + Len(p) - 1) = p

(* s has p at position i, letter case ignored *)
HasAtCI(s, i, p) ==
  /\ i >= 1
  /\ i + Len(p) - 1 <= Len(s)
  /\ FoldCase(SubSeq(s, i, i + Len(p) - 1)) = FoldCase(p)

Contains(s, p) == \E i \in 1..(Len(s) + 1) : HasAt(s, i, p)

(* the position after the longest run of characters of S that starts at i *)
RECURSIVE RunEnd(_, _, _)
RunEnd(s, i, S) ==
  IF i <= Len(s) /\ s[i] \in S THEN RunEnd(s, i + 1, S) ELSE i

(* the position of the first character of s from i on that is in S, or
   Len(s)+1 *)
RECURSIVE FindIn(_, _, _)
FindIn(s, i, S) ==
  IF i <= Len(s) /\ s[i] \notin S THEN FindIn(s, i + 1, S) ELSE i

(* String.prototype.trim *)
RECURSIVE TrimEnd(_)
TrimEnd(s) ==
  IF s # <<>> /\ s[Len(s)] \in WhiteSpace
    THEN TrimEnd(SubSeq(s, 1, Len(s) - 1))
    ELSE s

trim(s) == TrimEnd(From(s, RunEnd(s, 1, WhiteSpace)))

(* String.prototype.split with a one-character separator *)
RECURSIVE split(_, _)
split(s, sep) ==
  LET k == FindIn(s, 1, {sep}) IN
    IF k > Len(s) THEN << s >>
    ELSE << SubSeq(s, 1, k - 1) >> \o split(From(s, k + 1), sep)

(* String.prototype.replace(/p/g, r) for a literal p *)
RECURSIVE ReplaceAll(_, _, _)
ReplaceAll(s, p, r) ==
  IF s = <<>> THEN <<>>
  ELSE IF HasAt(s, 1, p) THEN r \o ReplaceAll(From(s, Len(p) + 1), p, r)
  ELSE << s[1] >> \o ReplaceAll(Tail(s), p, r)

(* String.prototype.replace(/p/gi, r) for a literal p *)
RECURSIVE ReplaceAllCI(_, _, _)
ReplaceAllCI(s, p, r) ==
  IF s = <<>> THEN <<>>
  ELSE IF HasAtCI(s, 1, p) THEN r \o ReplaceAllCI(From(s, Len(p) + 1), p, r)
  ELSE << s[1] >> \o ReplaceAllCI(Tail(s), p, r)

(* parseInt of a run of decimal digits *)
RECURSIVE parseInt(_)
parseInt(ds) ==
  IF ds = <<>> THEN 0
  ELSE 10 * parseInt(SubSeq(ds, 1, Len(ds) - 1)) + DigitVal(ds[Len(ds)])

(* the decimal text of an integer, as a template literal writes it *)
RECURSIVE NatToStr(_)
NatToStr(n) ==
  IF n < 10 THEN << DigitSeq[n + 1] >>
  ELSE NatToStr(n \div 10) \o << DigitSeq[(n % 10) + 1] >>

IntToStr(n) == IF n < 0 THEN << "-" >> \o NatToStr(-n) ELSE NatToStr(n)

----------------------------------------------------------------------------
(* CalculatorImporter: the function table *)

(* this.functionMap, in the insertion order Object.keys returns *)
functionMap ==
  <<
     << << "P","I" >>,
        << "M","a","t","h",".","P","I" >> >>,
     << << "S","Q","R","T" >>,
        << "M","a","t","h",".","s","q","r","t" >> >>,
     << << "P","O","W" >>,
        << "M","a","t","h",".","p","o","w" >> >>,
     << << "A","B","S" >>,
        << "M","a","t","h",".","a","b","s" >> >>,
     << << "R","O","U","N","D" >>,
        << "M","a","t","h",".","r","o","u","n","d" >> >>,
     << << "F","L","O","O","R" >>,
        << "M","a","t","h",".","f","l","o","o","r" >> >>,
     << << "C","E","I","L" >>,
        << "M","a","t","h",".","c","e","i","l" >> >>,
     << << "S","I","N" >>,
        << "M","a","t","h",".","s","i","n" >> >>,
     << << "C","O","S" >>,
        << "M","a","t","h",".","c","o","s" >> >>,
     << << "T","A","N" >>,
        << "M","a","t","h",".","t","a","n" >> >>,
     << << "M","I","N" >>,
        << "M","a","t","h",".","m","i","n" >> >>,
     << << "M","A","X" >>,
        << "M","a","t","h",".","m","a","x" >> >>,
     << << "E","X","P" >>,
        << "M","a","t","h",".","e","x","p" >> >>,
     << << "L","O","G" >>,
        << "M","a","t","h",".","l","o","g" >> >>
  >>

----------------------------------------------------------------------------
(* CalculatorImporter.cellRefToId *)

(* a Map is a function; the importer's keys are 0 .. size-1 *)
MapSize(m) == Cardinality(DOMAIN m)

MapGet(m, k) == m[k]

MapSet(m, k, v) == [x \in (DOMAIN m) \cup {k} |-> IF x = k THEN v ELSE m[x]]

EmptyMap == [x \in {} |-> <<>>]

(* /([A-Z]+)(\d+)/ matches at position i of s *)
CoordAt(s, i) ==
  LET j == RunEnd(s, i, Upper) IN j > i /\ RunEnd(s, j, Digit) > j

(* the position of the leftmost match of /([A-Z]+)(\d+)/ in s, or 0 *)
RECURSIVE CoordFrom(_, _)
CoordFrom(s, i) ==
  IF i > Len(s) THEN 0
  ELSE IF CoordAt(s, i) THEN i
  ELSE CoordFrom(s, i + 1)

(* row N of the sheet is cell index N - HeaderOffset *)
HeaderOffset == 2

(* row N of a SUM range is placeholder index N - SumOffset *)
SumOffset == 1

(* cellRefToId with the SUM convention for the row: row N is index N - 1 *)
cellRefToId_RowMinusOne(cellRef, cellIdMap) ==
  LET i == CoordFrom(cellRef, 1) IN
    IF i = 0 THEN cellRef
    ELSE
      LET j == RunEnd(cellRef, i, Upper)
          k == RunEnd(cellRef, j, Digit)
          col == SubSeq(cellRef, i, j - 1)
          row == parseInt(SubSeq(cellRef, j, k - 1))
          cellIndex == row - SumOffset
      IN  IF col # << "B" >> THEN cellRef
          ELSE IF cellIndex < 0 \/ cellIndex >= MapSize(cellIdMap) THEN cellRef
          ELSE MapGet(cellIdMap, cellIndex)

cellRefToId(cellRef, cellIdMap) ==
  LET i == CoordFrom(cellRef, 1) IN
    IF i = 0 THEN cellRef
    ELSE
      LET j == RunEnd(cellRef, i, Upper)
          k == RunEnd(cellRef, j, Digit)
          col == SubSeq(cellRef, i, j - 1)
          row == parseInt(SubSeq(cellRef, j, k - 1))
          cellIndex == row - HeaderOffset
      IN  IF col # << "B" >> THEN cellRef
          ELSE IF cellIndex < 0 \/ cellIndex >= MapSize(cellIdMap) THEN cellRef
          ELSE MapGet(cellIdMap, cellIndex)

----------------------------------------------------------------------------
(* CalculatorImporter.convertSpecialFunctions *)

Letter == Upper \cup Lower

(* the placeholder `cell_${i}` *)
Placeholder(i) == << "c","e","l","l","_" >> \o IntToStr(i)

(* cells.join(' + ') for cells = [cell_a, ..., cell_b] *)
RECURSIVE JoinPlaceholders(_, _)
JoinPlaceholders(a, b) ==
  IF a > b THEN <<>>
  ELSE IF a = b THEN Placeholder(a)
  ELSE Placeholder(a) \o << " ","+"," " >> \o JoinPlaceholders(a + 1, b)

(* the match of /SUM\(([A-Z]+)(\d+):([A-Z]+)(\d+)\)/i at position i of s:
   the positions that delimit its groups, or ok = FALSE *)
SumAt(s, i) ==
  LET a == i + 4
      b == RunEnd(s, a, Letter)
      c == RunEnd(s, b, Digit)
      d == RunEnd(s, c + 1, Letter)
      e == RunEnd(s, d, Digit)
  IN  [ ok |-> /\ HasAtCI(s, i, << "S","U","M","(" >>)
               /\ b > a /\ c > b
               /\ c <= Len(s) /\ s[c] = ":"
               /\ d > c + 1 /\ e > d
               /\ e <= Len(s) /\ s[e] = ")",
        row1 |-> SubSeq(s, b, c - 1),
        row2 |-> SubSeq(s, d, e - 1),
        end |-> e ]

(* formula.replace(/SUM\(([A-Z]+)(\d+):([A-Z]+)(\d+)\)/gi, ...) *)
RECURSIVE ExpandSum(_)
ExpandSum(s) ==
  IF s = <<>> THEN <<>>
  ELSE
    LET m == SumAt(s, 1) IN
      IF m.ok
        THEN LET startRow == parseInt(m.row1) - SumOffset
                 endRow == parseInt(m.row2) - SumOffset
             IN  << "(" >> \o JoinPlaceholders(startRow, endRow) \o << ")" >>
                   \o ExpandSum(From(s, m.end + 1))
        ELSE << s[1] >> \o ExpandSum(Tail(s))

(* the match of /IF\(([^,]+),([^,]+),([^)]+)\)/i at position i of s *)
IfAt(s, i) ==
  LET a == i + 3
      c1 == FindIn(s, a, {","})
      c2 == FindIn(s, c1 + 1, {","})
      p == FindIn(s, c2 + 1, {")"})
  IN  [ ok |-> /\ HasAtCI(s, i, << "I","F","(" >>)
               /\ c1 > a /\ c1 <= Len(s)
               /\ c2 > c1 + 1 /\ c2 <= Len(s)
               /\ p > c2 + 1 /\ p <= Len(s),
        g1 |-> SubSeq(s, a, c1 - 1),
        g2 |-> SubSeq(s, c1 + 1, c2 - 1),
        g3 |-> SubSeq(s, c2 + 1, p - 1),
        end |-> p ]

(* formula.replace(/IF\(([^,]+),([^,]+),([^)]+)\)/gi, '($1 ? $2 : $3)') *)
RECURSIVE ExpandIf(_)
ExpandIf(s) ==
  IF s = <<>> THEN <<>>
  ELSE
    LET m == IfAt(s, 1) IN
      IF m.ok
        THEN << "(" >> \o m.g1 \o << " ","?"," " >> \o m.g2 \o << " ",":"," " >> \o m.g3 \o << ")" >>
               \o ExpandIf(From(s, m.end + 1))
        ELSE << s[1] >> \o ExpandIf(Tail(s))

convertSpecialFunctions(formula) == ExpandIf(ExpandSum(formula))

----------------------------------------------------------------------------
(* CalculatorImporter.convertFormula *)

(* the replacement of coordinates without the g flag: the first match only *)
ReplaceCoords_FirstOnly(s, cellIdMap) ==
  LET i == CoordFrom(s, 1) IN
    IF i = 0 THEN s
    ELSE LET k == RunEnd(s, RunEnd(s, i, Upper), Digit) IN
           SubSeq(s, 1, i - 1) \o cellRefToId(SubSeq(s, i, k - 1), cellIdMap)
             \o From(s, k)

(* jsFormula.replace(/([A-Z]+)(\d+)/g, match => this.cellRefToId(match, cellIdMap)) *)
RECURSIVE ReplaceCoords(_, _)
ReplaceCoords(s, cellIdMap) ==
  IF s = <<>> THEN <<>>
  ELSE IF CoordAt(s, 1)
    THEN LET k == RunEnd(s, RunEnd(s, 1, Upper), Digit) IN
           cellRefToId(SubSeq(s, 1, k - 1), cellIdMap)
             \o ReplaceCoords(From(s, k), cellIdMap)
    ELSE << s[1] >> \o ReplaceCoords(Tail(s), cellIdMap)

(* Object.keys(this.functionMap).forEach(...), from entry n on *)
RECURSIVE ReplaceFunctions(_, _)
ReplaceFunctions(s, n) ==
  IF n > Len(functionMap) THEN s
  ELSE ReplaceFunctions(
         ReplaceAllCI(s, functionMap[n][1] \o << "(" >>,
                      functionMap[n][2] \o << "(" >>),
         n + 1)

(* the text handed to convertSpecialFunctions *)
BeforeSpecial(formula, cellIdMap) ==
  LET stripped == From(trim(formula), 2)
      refs == ReplaceCoords(stripped, cellIdMap)
      funcs == ReplaceFunctions(refs, 1)
      pi == ReplaceAll(funcs, << "M","a","t","h",".","P","I","(",")" >>, << "M","a","t","h",".","P","I" >>)
  IN  ReplaceAll(pi, << "^" >>, << "*", "*" >>)

convertFormula(formula, cellIdMap) ==
  convertSpecialFunctions(BeforeSpecial(formula, cellIdMap))

----------------------------------------------------------------------------
(* CalculatorImporter.generateCellId *)

(* String.prototype.normalize('NFD'), one character *)
NFDChar(c) ==
  IF c = "U+00E9" THEN << "e", "U+0301" >>
  ELSE IF c = "U+00C9" THEN << "E", "U+0301" >>
  ELSE << c >>

RECURSIVE normalizeNFD(_)
normalizeNFD(s) ==
  IF s = <<>> THEN <<>> ELSE NFDChar(s[1]) \o normalizeNFD(Tail(s))

(* the combining marks U+0300 .. U+036F *)
Combining == {"U+0301"}

(* .replace(/[\u0300-\u036f]/g, '') *)
StripAccents(s) == SelectSeq(s, LAMBDA c : c \notin Combining)

(* .replace(/[^a-z0-9]+/g, '_') *)
RECURSIVE Underscore(_)
Underscore(s) ==
  IF s = <<>> THEN <<>>
  ELSE IF s[1] \in Lower \cup Digit THEN << s[1] >> \o Underscore(Tail(s))
  ELSE << "_" >> \o Underscore(From(s, FindIn(s, 1, Lower \cup Digit)))

(* .replace(/^_+|_+$/g, '') *)
RECURSIVE StripTrailing(_)
StripTrailing(s) ==
  IF s # <<>> /\ s[Len(s)] = "_" THEN StripTrailing(SubSeq(s, 1, Len(s) - 1))
  ELSE s

StripUnderscores(s) == StripTrailing(From(s, RunEnd(s, 1, {"_"})))

generateCellId(label) ==
  StripUnderscores(Underscore(StripAccents(normalizeNFD(toLowerCase(label)))))

----------------------------------------------------------------------------
(* Numbers: undefined, NaN, or a decimal number (sign, integer part, the
   digits of the fraction without trailing zeros) *)

Undefined == [kind |-> "undefined", neg |-> FALSE, int |-> 0, frac |-> <<>>]

NaN == [kind |-> "NaN", neg |-> FALSE, int |-> 0, frac |-> <<>>]

RECURSIVE StripZeros(_)
StripZeros(ds) ==
  IF ds # <<>> /\ ds[Len(ds)] = "0" THEN StripZeros(SubSeq(ds, 1, Len(ds) - 1))
  ELSE ds

Number(neg, int, fracDigits) ==
  LET frac == StripZeros(fracDigits) IN
    [kind |-> "number", neg |-> neg /\ ~(int = 0 /\ frac = <<>>),
     int |-> int, frac |-> frac]

One == Number(FALSE, 1, <<>>)

isNaN(x) == x.kind # "number"

(* a number as a condition: undefined, NaN and 0 are falsy *)
TruthyNumber(x) == x.kind = "number" /\ ~(x.int = 0 /\ x.frac = <<>>)

(* parseFloat: leading white space, a sign, digits, a fraction; what follows
   is ignored.  (Exponents and Infinity are not used by the model's inputs.) *)
parseFloat(str) ==
  LET s == From(str, RunEnd(str, 1, WhiteSpace))
      signed == s # <<>> /\ s[1] \in {"+", "-"}
      a == IF signed THEN 2 ELSE 1
      b == RunEnd(s, a, Digit)
      dot == b <= Len(s) /\ s[b] = "."
      c == IF dot THEN RunEnd(s, b + 1, Digit) ELSE b
      intDigits == SubSeq(s, a, b - 1)
      fracDigits == IF dot THEN SubSeq(s, b + 1, c - 1) ELSE <<>>
  IN  IF intDigits = <<>> /\ fracDigits = <<>> THEN NaN
      ELSE Number(signed /\ s[1] = "-", parseInt(intDigits), fracDigits)

----------------------------------------------------------------------------
(* CalculatorImporter.parseTSV, isFormula *)

parseTSV(tsvData) ==
  LET lines == split(trim(tsvData), "\n") IN
    [i \in DOMAIN lines |-> split(lines[i], "\t")]

isFormula(value) == LET v == trim(value) IN v # <<>> /\ v[1] = "="

(* row[k] of a JavaScript array (k from 0) is a non-empty string *)
Truthy(row, k) == k < Len(row) /\ row[k + 1] # <<>>

(* row[k] ? row[k].trim() : '' *)
TrimmedField(row, k) == IF Truthy(row, k) THEN trim(row[k + 1]) ELSE <<>>

(* row[k] ? parseFloat(row[k]) : undefined *)
NumberField(row, k) == IF Truthy(row, k) THEN parseFloat(row[k + 1]) ELSE Undefined

----------------------------------------------------------------------------
(* CalculatorImporter.importFromSpreadsheet: the cells *)

Decimals == 2

FormulaCell(cellId, label, jsFormula, unit) ==
  [id |-> cellId, label |-> label, type |-> "formula", formula |-> jsFormula,
   unit |-> unit, decimals |-> Decimals, display |-> TRUE]

(* step || 1 *)
StepOrOne(step) == IF TruthyNumber(step) THEN step ELSE One

InputCell(cellId, label, value, min, max, step, unit) ==
  [id |-> cellId, label |-> label, type |-> "input", valueType |-> "number",
   value |-> parseFloat(value), min |-> min, max |-> max,
   step |-> StepOrOne(step), unit |-> unit]

(* SkippedRow without the test of the first row *)
SkippedRow_FirstRowKept(row, rowIndex) ==
  \/ Len(row) = 0
  \/ ~Truthy(row, 0)
  \/ toLowerCase(trim(row[1])) = << "l", "a", "b", "e", "l" >>
  \/ trim(row[1]) = <<>>

(* the row is one the forEach callback returns from before assigning an id *)
SkippedRow(row, rowIndex) ==
  \/ Len(row) = 0
  \/ ~Truthy(row, 0)
  \/ rowIndex = 0
  \/ toLowerCase(trim(row[1])) = <<"l","a","b","e","l">>
  \/ trim(row[1]) = <<>>

(* cell.formula.replace(new RegExp(`cell_${index}\\b`, 'g'), id) *)
RECURSIVE ReplacePlaceholder(_, _, _)
ReplacePlaceholder(s, index, id) ==
  LET tok == Placeholder(index) IN
    IF s = <<>> THEN <<>>
    ELSE IF /\ HasAt(s, 1, tok)
            /\ (Len(s) = Len(tok) \/ s[Len(tok) + 1] \notin WordChar)
      THEN id \o ReplacePlaceholder(From(s, Len(tok) + 1), index, id)
      ELSE << s[1] >> \o ReplacePlaceholder(Tail(s), index, id)

(* cellIdMap.forEach((id, index) => ...), from key index on, in insertion
   order (the keys are inserted in increasing order) *)
RECURSIVE FixUpFormula(_, _, _)
FixUpFormula(formula, cellIdMap, index) ==
  IF index >= MapSize(cellIdMap) THEN formula
  ELSE FixUpFormula(ReplacePlaceholder(formula, index, MapGet(cellIdMap, index)),
                    cellIdMap, index + 1)

(* cells.forEach(cell => { if (cell.type === 'formula') ... }) *)
FixUpCells(cs, cellIdMap) ==
  [p \in DOMAIN cs |->
     IF cs[p].type = "formula"
       THEN [cs[p] EXCEPT !.formula = FixUpFormula(cs[p].formula, cellIdMap, 0)]
       ELSE cs[p]]

----------------------------------------------------------------------------
(* CalculatorImporter.validate *)

(* !calculator.cells *)
NoCells(calculator) == "cells" \notin DOMAIN calculator

(* !calculator.cells || calculator.cells.length === 0 *)
EmptyError(calculator) ==
  IF NoCells(calculator) \/ Len(calculator.cells) = 0
    THEN << << "Le calculateur doit contenir au moins une cellule" >> >>
    ELSE <<>>

(* a missing property reads as undefined *)
Has(cell, f) == f \in DOMAIN cell

(* IdError without the test for an id seen before *)
IdError_NoDuplicateTest(cell, index, cellIds) ==
  IF ~Has(cell, "id") \/ cell.id = <<>>
    THEN << << "Cellule", index, "ID manquant" >> >>
  ELSE <<>>

(* the id branch of the loop body: the error it pushes, if any *)
IdError(cell, index, cellIds) ==
  IF ~Has(cell, "id") \/ cell.id = <<>>
    THEN << << "Cellule", index, "ID manquant" >> >>
  ELSE IF cell.id \in cellIds
    THEN << << "Cellule", index, "ID en double", cell.id >> >>
  ELSE <<>>

(* the rest of the loop body *)
FieldErrors(cell, index) ==
  (IF ~Has(cell, "label") \/ cell.label = <<>>
     THEN << << "Cellule", index, "Label manquant" >> >> ELSE <<>>)
  \o
  (IF ~Has(cell, "type") \/ cell.type \notin {"input", "formula"}
     THEN << << "Cellule", index, "Type invalide" >> >> ELSE <<>>)
  \o
  (IF /\ Has(cell, "type") /\ cell.type = "input"
      /\ (~Has(cell, "value") \/ cell.value = Undefined)
     THEN << << "Cellule", index, "Valeur manquante pour input" >> >> ELSE <<>>)
  \o
  (IF /\ Has(cell, "type") /\ cell.type = "formula"
      /\ (~Has(cell, "formula") \/ cell.formula = <<>>)
     THEN << << "Cellule", index, "Formule manquante" >> >> ELSE <<>>)

(* calculator.cells.forEach((cell, index) => ...), from position p on *)
RECURSIVE CellErrors(_, _, _)
CellErrors(cs, p, cellIds) ==
  IF p > Len(cs) THEN <<>>
  ELSE
    LET cell == cs[p]
        idErr == IdError(cell, p - 1, cellIds)
        seen == IF idErr = <<>> THEN cellIds \cup {cell.id} ELSE cellIds
    IN  idErr \o FieldErrors(cell, p - 1) \o CellErrors(cs, p + 1, seen)

(* validate: threw is the TypeError of calculator.cells.forEach when
   calculator.cells is undefined *)
validate(calculator) ==
  IF NoCells(calculator)
    THEN [threw |-> TRUE, valid |-> FALSE, errors |-> EmptyError(calculator)]
    ELSE
      LET errors == EmptyError(calculator) \o CellErrors(calculator.cells, 1, {})
      IN  [threw |-> FALSE, valid |-> Len(errors) = 0, errors |-> errors]

----------------------------------------------------------------------------
(* The tables the script imports: the header line of a family, then up to
   MaxRows lines drawn from the family *)

MaxRows == 4

(* three inputs and the sum of their range *)
SumLines ==
  {
    <<"A","\t","1">>,
    <<"C","e","l","l"," ","1","\t","2","\t","m">>,
    <<"X","1","\t","3">>,
    <<"T","o","t","a","l","\t","=","S","U","M","(","B","2",":","B","4",")">>
  }

(* identifiers that look like placeholders *)
PlaceholderLines ==
  {
    <<"C","e","l","l"," ","1","\t","2">>,
    <<"B","\t","3">>,
    <<"T","w","i","c","e","\t","=","B","2","*","2">>,
    <<"S","\t","=","S","U","M","(","A","1",":","A","2",")","+","B","2">>
  }

(* forward references, a line that yields no cell, a line without label *)
ReferenceLines ==
  {
    <<"A","\t","1">>,
    <<"D","\t","f","o","o">>,
    <<"F","\t","=","B","4","+","B","2">>,
    <<"\t","3">>
  }

(* bounds and steps; labels with the same or with an empty identifier, or the header's *)
FieldLines ==
  {
    <<"U+00C9","\t","5","\t","m","\t","4","\t","1","0","\t","0",".","5">>,
    <<"e","\t","7","\t","m","\t","a","b","c","\t"," ","\t","0">>,
    <<"!","!","\t","1">>,
    <<"L","a","b","e","l","\t","9">>
  }

(* the header line of the tables of each family: the first line is skipped
   whatever it holds *)
Families ==
  { [header |-> <<"L","a","b","e","l","\t","V","a","l","e","u","r">>, lines |-> SumLines],
    [header |-> <<"L","a","b","e","l","\t","V","a","l","e","u","r","\t","U","n","i","t","U+00E9">>, lines |-> PlaceholderLines],
    [header |-> <<"L","a","b","e","l","\t","V","a","l","e","u","r">>, lines |-> ReferenceLines],
    [header |-> <<"N","o","m","\t","1","\t","m">>, lines |-> FieldLines] }

(* the lines joined by line feeds, after the header line *)
RECURSIVE JoinLines(_)
JoinLines(ls) ==
  IF ls = <<>> THEN <<>> ELSE << "\n" >> \o ls[1] \o JoinLines(Tail(ls))

TablesOf(F) ==
  { F.header \o JoinLines(ls) : ls \in UNION { [1..n -> F.lines] : n \in 0..MaxRows } }

Tables == UNION { TablesOf(F) : F \in Families }

----------------------------------------------------------------------------
(* State *)

VARIABLES
  tsvData,      \* importFromSpreadsheet: the text imported
  rows,         \* the rows parseTSV returned
  rowIndex,     \* the position of rows.forEach
  cells,        \* the cells pushed so far
  cellIdMap,    \* cell index -> cell id
  cellIndex,    \* the index of the next retained row
  origin,       \* for each cell of cells, the row and the cell index it came from
  pc,           \* where the script is
  calculator,   \* the object importFromSpreadsheet returned
  validation,   \* the object validate returned
  arg,          \* the string argument of a call of cellRefToId or convertFormula
  ret           \* what that call returned

vars ==
  << tsvData, rows, rowIndex, cells, cellIdMap, cellIndex, origin, pc,
     calculator, validation, arg, ret >>

NoCalculator == [name |-> "", description |-> ""]

NoValidation == [threw |-> FALSE, valid |-> FALSE, errors |-> <<>>]

----------------------------------------------------------------------------
(* The script: importFromSpreadsheet, then validate *)

Init ==
  /\ tsvData \in Tables
  /\ rows = <<>>
  /\ rowIndex = 0
  /\ cells = <<>>
  /\ cellIdMap = EmptyMap
  /\ cellIndex = 0
  /\ origin = <<>>
  /\ pc = "import"
  /\ calculator = NoCalculator
  /\ validation = NoValidation
  /\ arg = <<>>
  /\ ret = <<>>

(* importFromSpreadsheet, up to the forward pass *)
Begin ==
  /\ pc = "import"
  /\ rows' = parseTSV(tsvData)
  /\ cells' = <<>>
  /\ cellIdMap' = EmptyMap
  /\ cellIndex' = 0
  /\ rowIndex' = 0
  /\ pc' = "forEach"
  /\ UNCHANGED << tsvData, origin, calculator, validation, arg, ret >>

(* one call of the callback of rows.forEach *)
ForwardRow ==
  /\ pc = "forEach"
  /\ rowIndex < Len(rows)
  /\ LET row == rows[rowIndex + 1] IN
       IF SkippedRow(row, rowIndex)
         THEN UNCHANGED << cells, cellIdMap, cellIndex, origin >>
         ELSE
           LET label == trim(row[1])
               value == TrimmedField(row, 1)
               unit == TrimmedField(row, 2)
               min == NumberField(row, 3)
               max == NumberField(row, 4)
               step == NumberField(row, 5)
               cellId == generateCellId(label)
               known == MapSet(cellIdMap, cellIndex, cellId)
               from == [row |-> row, index |-> cellIndex]
           IN  /\ cellIdMap' = known
               /\ cellIndex' = cellIndex + 1
               /\ IF isFormula(value)
                    THEN /\ cells' = Append(cells,
                              FormulaCell(cellId, label,
                                          convertFormula(value, known), unit))
                         /\ origin' = Append(origin, from)
                  ELSE IF ~isNaN(parseFloat(value))
                    THEN /\ cells' = Append(cells,
                              InputCell(cellId, label, value, min, max, step, unit))
                         /\ origin' = Append(origin, from)
                  ELSE UNCHANGED << cells, origin >>
  /\ rowIndex' = rowIndex + 1
  /\ UNCHANGED << tsvData, rows, pc, calculator, validation, arg, ret >>

(* the fix-up pass and the return of importFromSpreadsheet *)
FixUp ==
  /\ pc = "forEach"
  /\ rowIndex = Len(rows)
  /\ cells' = FixUpCells(cells, cellIdMap)
  /\ calculator' = [name |-> "Calcul de dimensions de plateforme",
                    description |-> "Calculateur pour determiner les dimensions necessaires",
                    cells |-> cells']
  /\ pc' = "returned"
  /\ UNCHANGED << tsvData, rows, rowIndex, cellIdMap, cellIndex, origin,
                  validation, arg, ret >>

(* importer.validate(calculator), and the script's exit *)
Validate ==
  /\ pc = "returned"
  /\ validation' = validate(calculator)
  /\ pc' = IF validation'.threw THEN "threw"
           ELSE IF validation'.valid THEN "passed"
           ELSE "failed"
  /\ UNCHANGED << tsvData, rows, rowIndex, cells, cellIdMap, cellIndex, origin,
                  calculator, arg, ret >>

Next == Begin \/ ForwardRow \/ FixUp \/ Validate

Spec == Init /\ [][Next]_vars

----------------------------------------------------------------------------
(* Calls of cellRefToId: any string, against any map the importer builds *)

MaxKnown == 3

(* the strings cellRefToId is called with *)
CellRefs ==
  {
    <<"B","2">>,
    <<"B","3">>,
    <<"B","4">>,
    <<"B","5">>,
    <<"B","1">>,
    <<"B","0">>,
    <<"B","0","2">>,
    <<"B","1","2">>,
    <<"A","2">>,
    <<"A","B","2">>,
    <<"b","2">>,
    <<"B">>,
    <<"2">>,
    <<>>,
    <<"x","+","1">>,
    <<"=","B","3","*","2">>
  }

(* the identifiers of the maps *)
KnownIds ==
  {
    <<"a">>,
    <<"c","e","l","l","_","1">>,
    <<>>
  }

(* the maps of at most MaxKnown identifiers, keyed 0 .. size-1 *)
KnownMaps ==
  UNION { [0..(n - 1) -> KnownIds] : n \in 0..MaxKnown }

InitResolve ==
  /\ pc = "cellRefToId"
  /\ arg \in CellRefs
  /\ cellIdMap \in KnownMaps
  /\ ret = <<>>
  /\ tsvData = <<>>
  /\ rows = <<>>
  /\ rowIndex = 0
  /\ cells = <<>>
  /\ cellIndex = 0
  /\ origin = <<>>
  /\ calculator = NoCalculator
  /\ validation = NoValidation

Resolve ==
  /\ pc = "cellRefToId"
  /\ ret' = cellRefToId(arg, cellIdMap)
  /\ pc' = "resolved"
  /\ UNCHANGED << tsvData, rows, rowIndex, cells, cellIdMap, cellIndex, origin,
                  calculator, validation, arg >>

NextResolve == Resolve

SpecResolve == InitResolve /\ [][NextResolve]_vars

----------------------------------------------------------------------------
(* Calls of convertFormula: a formula, against the identifiers the importer
   generates from the labels of the rows before it *)

(* the labels of the rows *)
Labels ==
  {
    <<"A">>,
    <<"X","1">>,
    <<"1"," ","s","t">>,
    <<"P","i">>
  }

(* the formulas translated *)
Formulas ==
  {
    <<"=","B","2","*","2">>,
    <<"=","P","I","(",")","*","B","2","^","2">>,
    <<" ","=","B","2","+","B","3"," ">>,
    <<"=","S","Q","R","T","(","B","2",")","+","M","I","N","(","B","2",",","B","3",")">>,
    <<"=","P","I","(",")","2">>,
    <<"=","p","i","(",")","B","3">>,
    <<"=","B","2","(",")","4","2">>,
    <<"=","A","2","*","2">>,
    <<"=","B","9","+","1">>,
    <<"=","S","U","M","(","B","2",":","B","3",")">>,
    <<"=","i","f","(","B","2",",","1",",","2",")">>,
    <<"=","X","B","2">>
  }

(* rows of one field, the label *)
LabelRows ==
  UNION { [1..n -> { << l >> : l \in Labels }] : n \in 0..MaxKnown }

InitFormula ==
  /\ pc = "generateCellId"
  /\ arg \in Formulas
  /\ rows \in LabelRows
  /\ cellIdMap = EmptyMap
  /\ ret = <<>>
  /\ tsvData = <<>>
  /\ rowIndex = 0
  /\ cells = <<>>
  /\ cellIndex = 0
  /\ origin = <<>>
  /\ calculator = NoCalculator
  /\ validation = NoValidation

(* cellIdMap.set(cellIndex, this.generateCellId(label)) for each row *)
Identify ==
  /\ pc = "generateCellId"
  /\ cellIdMap' = [k \in 0..(Len(rows) - 1) |-> generateCellId(trim(rows[k + 1][1]))]
  /\ cellIndex' = Len(rows)
  /\ pc' = "convertFormula"
  /\ UNCHANGED << tsvData, rows, rowIndex, cells, origin, calculator,
                  validation, arg, ret >>

Translate ==
  /\ pc = "convertFormula"
  /\ ret' = convertFormula(arg, cellIdMap)
  /\ pc' = "translated"
  /\ UNCHANGED << tsvData, rows, rowIndex, cells, cellIdMap, cellIndex, origin,
                  calculator, validation, arg >>

NextFormula == Identify \/ Translate

SpecFormula == InitFormula /\ [][NextFormula]_vars

----------------------------------------------------------------------------
(* Calls of validate: any calculator record, with or without cells *)

MaxCells == 2

CellPool ==
  { InputCell(<< "a" >>, << "A" >>, << "1" >>, Undefined, Undefined, Undefined, <<>>),
    FormulaCell(<< "f" >>, << "F" >>, << "a", "*", "2" >>, <<>>),
    [label |-> << "X" >>, type |-> "input", value |-> One],
    [id |-> << "t" >>, label |-> << "T" >>, type |-> "text"],
    [id |-> << "v" >>, label |-> << "V" >>, type |-> "input"],
    [id |-> << "g" >>, label |-> << "G" >>, type |-> "formula", formula |-> <<>>],
    [id |-> << "n" >>, type |-> "input", value |-> One] }

Calculators ==
  { NoCalculator }
    \cup { [name |-> "", description |-> "", cells |-> cs] :
             cs \in UNION { [1..n -> CellPool] : n \in 0..MaxCells } }

InitValidate ==
  /\ pc = "returned"
  /\ calculator \in Calculators
  /\ validation = NoValidation
  /\ tsvData = <<>>
  /\ rows = <<>>
  /\ rowIndex = 0
  /\ cells = <<>>
  /\ cellIdMap = EmptyMap
  /\ cellIndex = 0
  /\ origin = <<>>
  /\ arg = <<>>
  /\ ret = <<>>

NextValidate == Validate

SpecValidate == InitValidate /\ [][NextValidate]_vars

----------------------------------------------------------------------------
(* What the claims speak of *)

(* importFromSpreadsheet has returned *)
Returned == pc \in {"returned", "passed", "failed", "threw"}

(* validate has been called *)
Validated == pc \in {"passed", "failed", "threw"}

(* the value field of the row cell p of the calculator came from *)
ValueOf(p) == TrimmedField(origin[p].row, 1)

(* the identifiers known when the formula of cell p was translated *)
KnownAt(p) == [k \in 0..origin[p].index |-> cellIdMap[k]]

(* the matches of /([A-Z]+)(\d+)/g in s, in order *)
RECURSIVE CoordMatches(_)
CoordMatches(s) ==
  IF s = <<>> THEN <<>>
  ELSE IF CoordAt(s, 1)
    THEN LET k == RunEnd(s, RunEnd(s, 1, Upper), Digit) IN
           << SubSeq(s, 1, k - 1) >> \o CoordMatches(From(s, k))
    ELSE CoordMatches(Tail(s))

(* the coordinates of the formula of cell p, as written in the table *)
CoordsOf(p) == CoordMatches(From(ValueOf(p), 2))

(* the column letters and the row number of a coordinate *)
ColOf(m) == SubSeq(m, 1, RunEnd(m, 1, Upper) - 1)

RowOf(m) == parseInt(From(m, RunEnd(m, 1, Upper)))

FormulaCells == { p \in DOMAIN calculator.cells : calculator.cells[p].type = "formula" }

InputCells == { p \in DOMAIN calculator.cells : calculator.cells[p].type = "input" }

----------------------------------------------------------------------------
(* C1 *)

(* the table is a header, three numeric input rows and a formula row whose
   value is =SUM(B2:B4) *)
ThreeInputsAndTheirSum ==
  /\ Len(rows) = 5
  /\ \A k \in 2..4 :
       /\ ~SkippedRow(rows[k], k - 1)
       /\ ~isFormula(TrimmedField(rows[k], 1))
       /\ ~isNaN(parseFloat(TrimmedField(rows[k], 1)))
  /\ ~SkippedRow(rows[5], 4)
  /\ TrimmedField(rows[5], 1) = <<"=","S","U","M","(","B","2",":","B","4",")">>

(* C1: after the import of three numeric input rows followed by a formula row
   =SUM(B2:B4), the expression of the formula cell is "(id1 + id2 + id3)",
   the identifiers of the three input rows in row order, and holds no
   "SUM(". *)
C1_SumOfThreeInputs ==
  (Returned /\ ThreeInputsAndTheirSum) =>
    LET cs == calculator.cells IN
      /\ cs[4].formula =
           << "(" >> \o cs[1].id \o <<" ","+"," ">> \o cs[2].id \o <<" ","+"," ">> \o cs[3].id \o << ")" >>
      /\ ~Contains(cs[4].formula, <<"S","U","M","(">>)

----------------------------------------------------------------------------
(* C3 *)

(* C3: in the calculator the import returns, a coordinate B<N> of a formula
   of retained row i, with N-2 > i the index of a retained row, has been
   replaced by the identifier of row index N-2, and the text B<N> is gone
   from the expression. *)
C3_ForwardReferencesResolved ==
  Returned =>
    \A p \in FormulaCells :
      LET ms == CoordsOf(p) IN
        \A q \in DOMAIN ms :
          LET n == RowOf(ms[q]) - HeaderOffset IN
            (/\ ColOf(ms[q]) = << "B" >>
             /\ n > origin[p].index
             /\ n < MapSize(cellIdMap))
            => /\ ~Contains(calculator.cells[p].formula, ms[q])
               /\ Contains(calculator.cells[p].formula, cellIdMap[n])

----------------------------------------------------------------------------
(* C4 *)

(* C4: in the calculator the import returns, whenever a coordinate B<N> of a
   formula was replaced by an identifier, that identifier is the id of the
   cell at position N-2 of the cells (row 2 is position 0), also for tables
   with rows that contribute no cell. *)
C4_CoordinateOrderIsCellOrder ==
  Returned =>
    \A p \in FormulaCells :
      LET ms == CoordsOf(p) IN
        \A q \in DOMAIN ms :
          LET id == cellRefToId(ms[q], KnownAt(p))
              n == RowOf(ms[q]) - HeaderOffset
          IN  id # ms[q] =>
                /\ n + 1 \in DOMAIN calculator.cells
                /\ calculator.cells[n + 1].id = id

----------------------------------------------------------------------------
(* C9 *)

(* the bound the claim expects of field k of a row: absent when the field is
   missing, empty or not a number, else the number parsed *)
ExpectedBound(row, k) ==
  IF ~Truthy(row, k) \/ isNaN(parseFloat(row[k + 1])) THEN Undefined
  ELSE parseFloat(row[k + 1])

(* C9: of every input cell the import produces, min and max are absent when
   the row's field is missing, empty or not parseable as a number and are the
   number parsed otherwise; step is the number parsed when the field is
   present and parseable, and 1 when the field is absent. *)
C9_BoundsAndStep ==
  Returned =>
    \A p \in InputCells :
      LET row == origin[p].row
          cell == calculator.cells[p]
      IN  /\ cell.min = ExpectedBound(row, 3)
          /\ cell.max = ExpectedBound(row, 4)
          /\ (Truthy(row, 5) /\ ~isNaN(parseFloat(row[6])))
               => cell.step = parseFloat(row[6])
          /\ Len(row) <= 5 => cell.step = One

----------------------------------------------------------------------------
(* C10 *)

(* the text of token i of a range sum when each placeholder is written once,
   as the identifier of its own row index *)
Resolved(i, ids) == IF i \in DOMAIN ids THEN ids[i] ELSE Placeholder(i)

RECURSIVE JoinResolved(_, _, _)
JoinResolved(a, b, ids) ==
  IF a > b THEN <<>>
  ELSE IF a = b THEN Resolved(a, ids)
  ELSE Resolved(a, ids) \o <<" ","+"," ">> \o JoinResolved(a + 1, b, ids)

(* the range sums of s expanded to the identifiers of their row indexes *)
RECURSIVE ExpandSumResolved(_, _)
ExpandSumResolved(s, ids) ==
  IF s = <<>> THEN <<>>
  ELSE
    LET m == SumAt(s, 1) IN
      IF m.ok
        THEN << "(" >>
               \o JoinResolved(parseInt(m.row1) - SumOffset,
                               parseInt(m.row2) - SumOffset, ids)
               \o << ")" >> \o ExpandSumResolved(From(s, m.end + 1), ids)
        ELSE << s[1] >> \o ExpandSumResolved(Tail(s), ids)

(* C10: the fix-up pass rewrites only the placeholders the SUM expansion
   emitted, each once, to the identifier of its own row index: the
   identifiers coordinate resolution wrote in the forward pass, and those the
   fix-up pass wrote, are in the returned expression unchanged, whatever the
   labels (also labels whose identifier reads cell_<k>). *)
C10_FixUpRewritesOnlyPlaceholders ==
  Returned =>
    \A p \in FormulaCells :
      calculator.cells[p].formula =
        ExpandIf(ExpandSumResolved(BeforeSpecial(ValueOf(p), KnownAt(p)), cellIdMap))

----------------------------------------------------------------------------
(* C5 *)

DistinctIds(cs) ==
  /\ \A p \in DOMAIN cs : cs[p].id # <<>>
  /\ \A p, q \in DOMAIN cs : p # q => cs[p].id # cs[q].id

(* C5: of a calculator the import produced, if validate returns valid = true
   then all cell ids are non-empty and pairwise distinct (two cells that
   share an id make validate return valid = false). *)
C5_DuplicateIdsCaught ==
  (Validated /\ ~validation.threw /\ validation.valid) => DistinctIds(calculator.cells)

(* validate accepted a calculator of several cells, and rejected none for
   its ids *)
C5_Witness ==
  /\ pc = "passed"
  /\ Len(calculator.cells) >= 3
  /\ DistinctIds(calculator.cells)

----------------------------------------------------------------------------
(* C8 *)

(* the table is a header row and nothing else *)
HeaderOnly == Len(parseTSV(tsvData)) = 1

(* C8: the import of a table of a header row alone yields no cell, and
   validate returns valid = false with exactly one error, that the
   calculator must contain at least one cell. *)
C8_HeaderOnly ==
  (Validated /\ HeaderOnly) =>
    /\ calculator.cells = <<>>
    /\ ~validation.threw
    /\ ~validation.valid
    /\ validation.errors =
         << << "Le calculateur doit contenir au moins une cellule" >> >>

(* a header-only table was imported and validated *)
C8_Witness ==
  /\ pc = "failed"
  /\ HeaderOnly
  /\ Len(validation.errors) = 1

----------------------------------------------------------------------------
(* C2 *)

(* C2: validate never throws: for every calculator record, also one whose
   cells are absent or empty, it returns { valid, errors }, valid being true
   exactly when errors is empty. *)
C2_ValidateNeverThrows ==
  Validated =>
    /\ ~validation.threw
    /\ validation.valid <=> (validation.errors = <<>>)
    /\ (NoCells(calculator) \/ calculator.cells = <<>>)
         => validation.errors =
              << << "Le calculateur doit contenir au moins une cellule" >> >>

----------------------------------------------------------------------------
(* C6 *)

(* the positions of s where a run of upper-case letters that a digit follows
   starts *)
PatternStarts(s) ==
  { i \in 1..Len(s) :
      \E j \in (i + 1)..Len(s) :
        /\ s[j] \in Digit
        /\ \A k \in i..(j - 1) : s[k] \in Upper }

(* the column letters and the row number of the first coordinate in s *)
FirstCoordinate(s) ==
  LET i == CHOOSE x \in PatternStarts(s) : \A y \in PatternStarts(s) : x <= y
      j == CHOOSE x \in (i + 1)..Len(s) :
             s[x] \in Digit /\ \A k \in i..(x - 1) : s[k] \in Upper
      e == CHOOSE x \in j..Len(s) :
             /\ \A k \in j..x : s[k] \in Digit
             /\ (x = Len(s) \/ s[x + 1] \notin Digit)
  IN  [col |-> SubSeq(s, i, j - 1), row |-> parseInt(SubSeq(s, j, e))]

(* what the claim expects cellRefToId to return *)
ExpectedId(s, ids) ==
  IF PatternStarts(s) = {} THEN s
  ELSE
    LET c == FirstCoordinate(s) IN
      IF c.col = << "B" >> /\ c.row - 2 >= 0 /\ c.row - 2 < Cardinality(DOMAIN ids)
        THEN ids[c.row - 2]
        ELSE s

(* C6: cellRefToId is total, in three ways: a coordinate of column B with
   0 <= row-2 < the number of identifiers known yields the identifier of row
   index row-2; a coordinate of another column, or of a row index that is
   negative or beyond those known, and a string the pattern does not match,
   are returned unchanged; and the map of identifiers is not modified. *)
C6_ResolveCoordinate ==
  /\ [](pc = "resolved" => ret = ExpectedId(arg, cellIdMap))
  /\ [][pc = "cellRefToId" => cellIdMap' = cellIdMap]_vars

(* B3 was resolved against a map that knows row index 1 *)
C6_Witness ==
  /\ pc = "resolved"
  /\ arg = << "B", "3" >>
  /\ MapSize(cellIdMap) = 2
  /\ ret = cellIdMap[1]
  /\ ret # arg

----------------------------------------------------------------------------
(* C7 *)

(* s holds a substring of the coordinate pattern, [A-Z]+ then digits *)
HasCoordinate(s) ==
  \E i \in 1..(Len(s) - 1) : s[i] \in Upper /\ s[i + 1] \in Digit

(* s is a coordinate: upper-case letters, then digits *)
IsCoordinate(s) ==
  \E j \in 2..Len(s) :
    /\ \A k \in 1..(j - 1) : s[k] \in Upper
    /\ \A k \in j..Len(s) : s[k] \in Digit

(* the formula holds no SUM( and no IF(, in any letter case *)
NoStructuralForm(f) ==
  \A i \in 1..Len(f) : ~HasAtCI(f, i, <<"S","U","M","(">>) /\ ~HasAtCI(f, i, <<"I","F","(">>)

(* every substring of f of the coordinate pattern is a reference to the
   value column that the identifiers known resolve *)
AllCoordinatesResolvable(f, ids) ==
  \A i \in 1..Len(f) : \A j \in i..Len(f) :
    LET m == SubSeq(f, i, j) IN
      IsCoordinate(m) =>
        /\ ColOf(m) = << "B" >>
        /\ (RowOf(m) - HeaderOffset) \in DOMAIN ids

(* the statement of C7 as claimed: for every formula without SUM or IF whose
   every coordinate-pattern substring is a resolvable reference to the value
   column, the expression convertFormula returns holds no substring of the
   coordinate pattern. *)
C7_RoundTrip_AsClaimed ==
  (/\ pc = "translated"
   /\ NoStructuralForm(arg)
   /\ AllCoordinatesResolvable(arg, cellIdMap))
  => ~HasCoordinate(ret)

(* once the coordinates of f are replaced by identifiers, no PI() (in any
   letter case) has a digit right after it *)
NoPiBeforeDigit(f, ids) ==
  LET t == ReplaceCoords(From(trim(f), 2), ids) IN
    \A i \in 1..Len(t) :
      ~(HasAtCI(t, i, <<"P","I","(",")">>) /\ i + 4 <= Len(t) /\ t[i + 4] \in Digit)

(* C7, amended: for every formula without SUM or IF whose every
   coordinate-pattern substring is a resolvable reference to the value
   column, and in which no PI() is directly followed by a digit once the
   coordinates are replaced, the expression convertFormula returns holds no
   substring of the coordinate pattern. *)
C7_RoundTrip ==
  (/\ pc = "translated"
   /\ NoStructuralForm(arg)
   /\ AllCoordinatesResolvable(arg, cellIdMap)
   /\ NoPiBeforeDigit(arg, cellIdMap))
  => ~HasCoordinate(ret)

(* a formula with coordinates and PI() was translated, against an identifier
   generated from a label with an upper-case letter and a digit *)
C7_Witness ==
  /\ pc = "translated"
  /\ NoStructuralForm(arg)
  /\ AllCoordinatesResolvable(arg, cellIdMap)
  /\ NoPiBeforeDigit(arg, cellIdMap)
  /\ HasCoordinate(arg)
  /\ Contains(arg, <<"P","I","(",")">>)
  /\ Len(rows) >= 1
  /\ HasCoordinate(rows[1][1])
  /\ Contains(ret, <<"M","a","t","h",".","P","I","*">>)
  /\ Contains(ret, cellIdMap[0])

====
